---- MODULE Spec2Model ----
(***************************************************************************)
(* krwallet: a sharded wallet ledger.  A router (TransactionProcessor)     *)
(* reads transaction records, validates them and sends each to the wallet  *)
(* actor `client mod actor_count`; every actor owns a map of wallets and   *)
(* applies Wallet::process_transaction to one message at a time; output    *)
(* asks every actor for its wallets and writes one row per wallet.         *)
(*                                                                         *)
(* Decimal amounts are integers counting units of 0.00005, so that the     *)
(* rounding to four fractional digits done on output is a real rounding.   *)
(* Option<Decimal> is a sequence: << >> is None, <<a>> is Some(a).         *)
(***************************************************************************)
EXTENDS Integers, Sequences, FiniteSets, TLC

(* ------------------------------ bounds -------------------------------- *)
MaxAmount == 2
MaxTxId == 2
MaxSteps == 5
MaxClient == 1
MaxShards == 2
MaxBuf == 2
MaxInput == 3
MaxInputAmount == 1
MaxInputTxId == 2
MaxOutputCalls == 2

Amounts == 0..MaxAmount
TxIds == 1..MaxTxId
Clients == 0..MaxClient

(* ------------------------------ lib.rs -------------------------------- *)
TransactionType == {"Deposit", "Withdrawal", "Dispute", "Resolve", "Chargeback"}

Transaction(t, c, i, a) ==
    [tx_type |-> t, client |-> c, id |-> i, amount |-> a, disputed |-> FALSE]

unwrap(opt) == opt[1]

(* -------------------------- wallet_actor.rs --------------------------- *)
WalletDefault ==
    [available |-> 0, held |-> 0, total |-> 0, locked |-> FALSE,
     transactions |-> << >>]

\* HashMap::insert: adds the key, or replaces the value stored under it.
Insert(m, k, v) == [x \in (DOMAIN m) \cup {k} |-> IF x = k THEN v ELSE m[x]]

Ok(w) == [w |-> w, res |-> "Ok"]
Err(w, e) == [w |-> w, res |-> e]

\* Fault variant: handle_deposit without the duplicate check.
handle_deposit_nodup(w, tx) ==
    Ok([w EXCEPT !.available = @ + unwrap(tx.amount),
                 !.transactions = Insert(@, tx.id, tx)])

handle_deposit(w, tx) ==
    IF tx.id \in DOMAIN w.transactions
    THEN Err(w, "DuplicateTransaction")
    ELSE Ok([w EXCEPT !.available = @ + unwrap(tx.amount),
                      !.transactions = Insert(@, tx.id, tx)])

\* Fault variant: handle_withdrawl that stores the record it then refuses.
handle_withdrawl_store_refused(w, tx) ==
    IF tx.id \in DOMAIN w.transactions
    THEN Err(w, "DuplicateTransaction")
    ELSE LET amount == unwrap(tx.amount) IN
         IF w.available < amount
         THEN Err([w EXCEPT !.transactions = Insert(@, tx.id, tx)], "InsufficientFunds")
         ELSE Ok([w EXCEPT !.available = @ - amount,
                           !.transactions = Insert(@, tx.id, tx)])

\* Fault variant: handle_withdrawl that stores the record without the debit.
handle_withdrawl_no_debit(w, tx) ==
    IF tx.id \in DOMAIN w.transactions
    THEN Err(w, "DuplicateTransaction")
    ELSE IF w.available < unwrap(tx.amount)
    THEN Err(w, "InsufficientFunds")
    ELSE Ok([w EXCEPT !.transactions = Insert(@, tx.id, tx)])

\* Fault variant: handle_withdrawl refusing amount == available (<= for <).
handle_withdrawl_strict(w, tx) ==
    IF tx.id \in DOMAIN w.transactions
    THEN Err(w, "DuplicateTransaction")
    ELSE LET amount == unwrap(tx.amount) IN
         IF w.available <= amount
         THEN Err(w, "InsufficientFunds")
         ELSE Ok([w EXCEPT !.available = @ - amount,
                           !.transactions = Insert(@, tx.id, tx)])

handle_withdrawl(w, tx) ==
    IF tx.id \in DOMAIN w.transactions
    THEN Err(w, "DuplicateTransaction")
    ELSE LET amount == unwrap(tx.amount) IN
         IF w.available < amount
         THEN Err(w, "InsufficientFunds")
         ELSE Ok([w EXCEPT !.available = @ - amount,
                           !.transactions = Insert(@, tx.id, tx)])

\* Fault variant: handle_dispute treating a Deposit like a Withdrawal.
handle_dispute_keep_available(w, tx_id) ==
    IF tx_id \notin DOMAIN w.transactions
    THEN Err(w, "TransactionNotFound")
    ELSE Ok([w EXCEPT !.transactions[tx_id].disputed = TRUE,
                      !.held = @ + unwrap(w.transactions[tx_id].amount)])

handle_dispute(w, tx_id) ==
    IF tx_id \notin DOMAIN w.transactions
    THEN Err(w, "TransactionNotFound")
    ELSE LET tx == w.transactions[tx_id]
             amount == unwrap(tx.amount)
             w1 == [w EXCEPT !.transactions[tx_id].disputed = TRUE]
         IN  CASE tx.tx_type = "Deposit" ->
                    Ok([w1 EXCEPT !.available = @ - amount, !.held = @ + amount])
               [] tx.tx_type = "Withdrawal" ->
                    Ok([w1 EXCEPT !.held = @ + amount])
               [] OTHER -> Ok(w1)

\* Fault variant: handle_resolve treating a Withdrawal like a Deposit.
handle_resolve_credit_always(w, tx_id) ==
    IF tx_id \notin DOMAIN w.transactions
    THEN Err(w, "TransactionNotFound")
    ELSE IF ~w.transactions[tx_id].disputed
    THEN Err(w, "InvalidDisputeState")
    ELSE LET amount == unwrap(w.transactions[tx_id].amount) IN
         Ok([w EXCEPT !.transactions[tx_id].disputed = FALSE,
                      !.held = @ - amount, !.available = @ + amount])

handle_resolve(w, tx_id) ==
    IF tx_id \notin DOMAIN w.transactions
    THEN Err(w, "TransactionNotFound")
    ELSE LET tx == w.transactions[tx_id] IN
         IF ~tx.disputed
         THEN Err(w, "InvalidDisputeState")
         ELSE LET amount == unwrap(tx.amount)
                  w1 == [w EXCEPT !.transactions[tx_id].disputed = FALSE]
              IN  CASE tx.tx_type = "Deposit" ->
                         Ok([w1 EXCEPT !.held = @ - amount, !.available = @ + amount])
                    [] tx.tx_type = "Withdrawal" ->
                         Ok([w1 EXCEPT !.held = @ - amount])
                    [] OTHER -> Ok(w1)

\* Fault variant: handle_chargeback without the check of the disputed flag.
handle_chargeback_unchecked(w, tx_id) ==
    IF tx_id \notin DOMAIN w.transactions
    THEN Err(w, "TransactionNotFound")
    ELSE LET tx == w.transactions[tx_id]
             amount == unwrap(tx.amount)
             w1 == [w EXCEPT !.transactions[tx_id].disputed = FALSE]
         IN  IF tx.tx_type = "Deposit"
             THEN Ok([w1 EXCEPT !.held = @ - amount, !.locked = TRUE])
             ELSE Ok([w1 EXCEPT !.held = @ - amount, !.available = @ + amount,
                                !.locked = TRUE])

\* Fault variant: handle_chargeback treating a Withdrawal like a Deposit.
handle_chargeback_no_refund(w, tx_id) ==
    IF tx_id \notin DOMAIN w.transactions
    THEN Err(w, "TransactionNotFound")
    ELSE IF ~w.transactions[tx_id].disputed
    THEN Err(w, "InvalidDisputeState")
    ELSE Ok([w EXCEPT !.transactions[tx_id].disputed = FALSE,
                      !.held = @ - unwrap(w.transactions[tx_id].amount),
                      !.locked = TRUE])

handle_chargeback(w, tx_id) ==
    IF tx_id \notin DOMAIN w.transactions
    THEN Err(w, "TransactionNotFound")
    ELSE LET tx == w.transactions[tx_id] IN
         IF ~tx.disputed
         THEN Err(w, "InvalidDisputeState")
         ELSE LET amount == unwrap(tx.amount)
                  w1 == [w EXCEPT !.transactions[tx_id].disputed = FALSE]
              IN  CASE tx.tx_type = "Deposit" ->
                         Ok([w1 EXCEPT !.held = @ - amount, !.locked = TRUE])
                    [] tx.tx_type = "Withdrawal" ->
                         Ok([w1 EXCEPT !.held = @ - amount,
                                       !.available = @ + amount,
                                       !.locked = TRUE])
                    [] OTHER -> Ok(w1)

dispatch_kind(w, tx) ==
    CASE tx.tx_type = "Deposit" -> handle_deposit(w, tx)
      [] tx.tx_type = "Withdrawal" -> handle_withdrawl(w, tx)
      [] tx.tx_type = "Dispute" -> handle_dispute(w, tx.id)
      [] tx.tx_type = "Resolve" -> handle_resolve(w, tx.id)
      [] tx.tx_type = "Chargeback" -> handle_chargeback(w, tx.id)

\* Fault variant: the locked guard covers every kind of record.
process_transaction_guard_all(w, tx) ==
    IF w.locked
    THEN Err(w, "AccountLocked")
    ELSE dispatch_kind(w, tx)

\* Fault variant: the locked guard covers Deposit only.
process_transaction_guard_deposit_only(w, tx) ==
    IF w.locked /\ tx.tx_type = "Deposit"
    THEN Err(w, "AccountLocked")
    ELSE dispatch_kind(w, tx)

\* Fault variant: a Resolve resets locked.
process_transaction_unlocking(w, tx) ==
    IF w.locked /\ tx.tx_type \in {"Deposit", "Withdrawal"}
    THEN Err(w, "AccountLocked")
    ELSE IF tx.tx_type = "Resolve"
    THEN LET r == dispatch_kind(w, tx) IN [r EXCEPT !.w.locked = FALSE]
    ELSE dispatch_kind(w, tx)

process_transaction(w, tx) ==
    IF w.locked /\ tx.tx_type \in {"Deposit", "Withdrawal"}
    THEN Err(w, "AccountLocked")
    ELSE dispatch_kind(w, tx)

\* Fault variant: the wallet enters the map only when its record is accepted.
handle_tx_insert_on_ok(ws, tx) ==
    LET w == IF tx.client \in DOMAIN ws THEN ws[tx.client] ELSE WalletDefault
        r == process_transaction(w, tx)
    IN  [ws |-> IF r.res = "Ok" \/ tx.client \in DOMAIN ws
                THEN Insert(ws, tx.client, r.w) ELSE ws,
         res |-> r.res]

\* WalletActor::handle, Tx: the wallet is looked up, or created, before the
\* record is applied, and stays in the map whatever the result.
handle_tx(ws, tx) ==
    LET wallet == IF tx.client \in DOMAIN ws THEN ws[tx.client] ELSE WalletDefault
        r == process_transaction(wallet, tx)
    IN  [ws |-> Insert(ws, tx.client, r.w), res |-> r.res]

\* Fault variant: the map is copied, not moved out.
mem_take_keeping(ws) == ws

\* std::mem::take(&mut self.wallets): what stays in the actor is the default,
\* empty map.
mem_take(ws) == << >>

\* WalletActor::handle, Output: total is computed for every wallet moved out.
WalletState(client_id, wallet) ==
    [client_id |-> client_id,
     wallet |-> [wallet EXCEPT !.total = wallet.available + wallet.held]]

(* ---------------------------- processor.rs ---------------------------- *)
\* Decimal::round_dp(4): to the nearest multiple of 0.0001 (two units), a
\* midpoint going to the even one; the result counts units of 0.0001.
round_dp4(x) ==
    LET q == x \div 2 IN
    IF x % 2 = 0 THEN q ELSE IF q % 2 = 0 THEN q ELSE q + 1

WalletCsvView(state) ==
    [client_id |-> state.client_id,
     available |-> round_dp4(state.wallet.available),
     held |-> round_dp4(state.wallet.held),
     total |-> round_dp4(state.wallet.total),
     locked |-> state.wallet.locked]

\* Fault variant: an amount of zero is refused as well.
validate_amount_positive(tx) ==
    IF tx.tx_type \in {"Deposit", "Withdrawal"}
    THEN IF tx.amount = << >> THEN "InvalidAmount"
         ELSE IF unwrap(tx.amount) <= 0 THEN "InvalidAmount" ELSE "Ok"
    ELSE "Ok"

\* process: the amount of a Deposit or Withdrawal must be present and not
\* below zero; the other kinds are not looked at.
validate_amount(tx) ==
    IF tx.tx_type \in {"Deposit", "Withdrawal"}
    THEN IF tx.amount = << >> THEN "InvalidAmount"
         ELSE IF unwrap(tx.amount) < 0 THEN "InvalidAmount" ELSE "Ok"
    ELSE "Ok"

\* Fault variant: routing by tx id instead of client id.
shard_of_tx_id(tx, n) == tx.id % n

\* process: wallet_actors.get(tx.client as usize % self.actor_count).
shard_of(tx, n) == tx.client % n

(* ------------------------------ state --------------------------------- *)
VARIABLES
    actor_count,    \* TransactionProcessor.actor_count: the number of wallet actors
    buf_size,       \* the capacity of every actor's mailbox
    mailbox,        \* per actor: the messages waiting in its mpsc channel, oldest first
    cur,            \* per actor: the message recv() returned and handle() is working on
    alive,          \* per actor: its loop is still running
    wallets,        \* per actor: WalletActor.wallets, client id -> Wallet
    pc,             \* where the caller of process and output is
    nread,          \* number of input records read so far
    pending,        \* the message tell() is waiting to enqueue
    out_idx,        \* output: index of the actor being asked
    reply,          \* the oneshot channel of the ask in progress: << >> or <<rows>>
    sink,           \* the rows serialized to the writer, in order
    process_result, \* what process returned
    output_result,  \* what output returned
    refWallets,     \* history: the dispatched records applied in input order to one map
    dispatchedPos,  \* history: per client, the input positions of its dispatched records
    appliedPos,     \* history: per client, the input positions of its applied records
    lastRead,       \* history: the record process read last, until its next tell or ask
    output_calls,   \* number of calls of output that returned
    sink_mark,      \* history: the number of rows in sink when the last call of output began
    fatal,          \* history: per actor, a handler of it ended with FatalError
    failed,         \* history: the phases ("tell", "ask") in which a channel operation failed
    ask_result,     \* output: what the last ask returned
    wlt,            \* SpecWallet: the wallet process_transaction is applied to
    last,           \* SpecWallet: the last call: its record, the wallet before it, its result
    prev,           \* SpecWallet: the call before the last one, when it was an accepted Dispute
    steps,          \* SpecWallet: number of calls made
    sumDeposits,    \* SpecWallet: sum of the amounts of the accepted Deposits
    sumWithdrawals, \* SpecWallet: sum of the amounts of the accepted Withdrawals
    onlyDW,         \* SpecWallet: no Dispute, Resolve or Chargeback was applied so far
    chargedBack     \* SpecWallet: the tx ids for which a Chargeback was accepted

sysVars == <<actor_count, buf_size, mailbox, cur, alive, wallets, pc, nread,
             pending, out_idx, reply, sink, process_result, output_result,
             refWallets, dispatchedPos, appliedPos, lastRead, output_calls,
             sink_mark, fatal, failed, ask_result>>

againVars == <<output_calls, sink_mark>>

faultVars == <<fatal, failed>>

walletVars == <<wlt, last, prev, steps, sumDeposits, sumWithdrawals, onlyDW,
                chargedBack>>

vars == <<sysVars, walletVars>>

(* --------------- SpecWallet: one wallet, record after record ----------- *)
\* The client whose wallet SpecWallet follows.
TheClient == MaxClient

\* Records as the router lets them through: a Deposit or Withdrawal carries
\* an amount >= 0; the other kinds are rows with an empty amount field.
ValidRecords(cs, ids, amounts) ==
    {Transaction(t, c, i, <<a>>) :
        t \in {"Deposit", "Withdrawal"}, c \in cs, i \in ids, a \in amounts}
    \cup
    {Transaction(t, c, i, << >>) :
        t \in {"Dispute", "Resolve", "Chargeback"}, c \in cs, i \in ids}

NoCall ==
    [tx |-> Transaction("None", TheClient, 0, << >>), pre |-> WalletDefault,
     res |-> "None", wasLocked |-> FALSE]

InitWallet ==
    /\ wlt = WalletDefault
    /\ last = NoCall
    /\ prev = NoCall
    /\ steps = 0
    /\ sumDeposits = 0
    /\ sumWithdrawals = 0
    /\ onlyDW = TRUE
    /\ chargedBack = {}

\* One call of Wallet::process_transaction.  last.wasLocked tells whether the
\* wallet was locked when this call or an earlier one started.
ProcessTransaction(tx) ==
    /\ steps < MaxSteps
    /\ LET r == process_transaction(wlt, tx) IN
       /\ wlt' = r.w
       /\ last' = [tx |-> tx, pre |-> wlt, res |-> r.res,
                   wasLocked |-> last.wasLocked \/ wlt.locked]
       /\ prev' = IF last.tx.tx_type = "Dispute" /\ last.res = "Ok" THEN last ELSE NoCall
       /\ sumDeposits' = IF tx.tx_type = "Deposit" /\ r.res = "Ok"
                         THEN sumDeposits + unwrap(tx.amount) ELSE sumDeposits
       /\ sumWithdrawals' = IF tx.tx_type = "Withdrawal" /\ r.res = "Ok"
                            THEN sumWithdrawals + unwrap(tx.amount) ELSE sumWithdrawals
       /\ onlyDW' = (onlyDW /\ tx.tx_type \in {"Deposit", "Withdrawal"})
       /\ chargedBack' = IF tx.tx_type = "Chargeback" /\ r.res = "Ok"
                         THEN chargedBack \cup {tx.id} ELSE chargedBack
    /\ steps' = steps + 1
    /\ UNCHANGED sysVars

NextWallet == \E tx \in ValidRecords({TheClient}, TxIds, Amounts) : ProcessTransaction(tx)

(* ------------------------- channel_actor.rs --------------------------- *)
\* lib.rs: the error of a tell whose channel is closed.
map_channel_send_err == "ActorTxSendError"

\* Fault variant: a dropped reply sender reported as a closed mailbox.
map_channel_recv_err_as_send == "ActorTxSendError"

\* lib.rs: the error of an ask whose reply sender was dropped.
map_channel_recv_err == "ActorRecvError"

\* Fault variant: a channel that keeps one permit back.
has_permit_one_short(queue, cap) == Len(queue) < cap - 1

\* Fault variant: a channel without a bound.
has_permit_always(queue, cap) == TRUE

\* mpsc::channel(buf_size): send gets a permit while fewer than buf_size
\* messages wait in the channel; otherwise the sender is suspended.
has_permit(queue, cap) == Len(queue) < cap

\* Fault variant: a channel that puts the new message before the waiting ones.
send_front(queue, msg) == <<msg>> \o queue

\* mpsc::Sender::send once a permit is free: the message goes to the tail.
send(queue, msg) == Append(queue, msg)

\* Fault variant: a loop that goes on after every error.
loop_continues_always(res) == TRUE

\* start: the loop goes on to the next message unless handle returned
\* Err(FatalError).
loop_continues(res) == res # "FatalError"

\* Fault variant: recv returning the oldest message without removing it.
recv_peek(queue) == [msg |-> Head(queue), rest |-> queue]

\* Fault variant: a mailbox handing out the newest message first.
recv_newest_first(queue) ==
    [msg |-> queue[Len(queue)], rest |-> SubSeq(queue, 1, Len(queue) - 1)]

\* mpsc::Receiver::recv: the oldest message leaves the channel.
recv(queue) == [msg |-> Head(queue), rest |-> Tail(queue)]

(* -------------- Spec: the router and the wallet actors ---------------- *)
Shards == 0..(actor_count - 1)

NoTx == Transaction("None", 0, 0, << >>)
NoMsg == [kind |-> "None", tx |-> NoTx, pos |-> 0]
TxMsg(tx, pos) == [kind |-> "Tx", tx |-> tx, pos |-> pos]
OutputMsg == [kind |-> "Output", tx |-> NoTx, pos |-> 0]

\* Rows the router stops at: a Deposit or Withdrawal without an amount, or
\* with a negative one.
InvalidRecords ==
    {Transaction(t, c, i, a) :
        t \in {"Deposit", "Withdrawal"}, c \in Clients, i \in 1..MaxInputTxId,
        a \in {<< >>, <<-1>>}}

\* The amounts of the input rows are multiples of 0.00015 (three units), so
\* that balances fall between two multiples of 0.0001 and are rounded both
\* ways on output.
InputAmounts == {3 * a : a \in 0..MaxInputAmount}

InputRecords ==
    ValidRecords(Clients, 1..MaxInputTxId, InputAmounts) \cup InvalidRecords

\* The orders in which a HashMap may hand out its keys.
Orders(S) ==
    {o \in [1..Cardinality(S) -> S] :
        \A a, b \in 1..Cardinality(S) : a # b => o[a] # o[b]}

InitSystem(counts, sizes) ==
    /\ actor_count \in counts
    /\ buf_size \in sizes
    /\ mailbox = [i \in Shards |-> << >>]
    /\ cur = [i \in Shards |-> NoMsg]
    /\ alive = [i \in Shards |-> TRUE]
    /\ wallets = [i \in Shards |-> << >>]
    /\ pc = "read"
    /\ nread = 0
    /\ pending = NoMsg
    /\ out_idx = 0
    /\ reply = << >>
    /\ sink = << >>
    /\ process_result = "None"
    /\ output_result = "None"
    /\ refWallets = << >>
    /\ dispatchedPos = [c \in Clients |-> << >>]
    /\ appliedPos = [c \in Clients |-> << >>]
    /\ lastRead = NoTx
    /\ output_calls = 0
    /\ sink_mark = 0
    /\ fatal = [i \in Shards |-> FALSE]
    /\ failed = {}
    /\ ask_result = "None"

\* process: the next row deserializes to tx.  An absent or negative amount
\* of a Deposit or Withdrawal makes process return; main goes on to output.
ReadRecord(tx) ==
    /\ pc = "read"
    /\ nread < MaxInput
    /\ nread' = nread + 1
    /\ lastRead' = tx
    /\ IF validate_amount(tx) = "InvalidAmount"
       THEN /\ process_result' = "InvalidAmount"
            /\ pc' = "output"
            /\ pending' = pending
       ELSE /\ pending' = TxMsg(tx, nread + 1)
            /\ pc' = "tell"
            /\ process_result' = process_result
    /\ UNCHANGED <<actor_count, buf_size, mailbox, cur, alive, wallets, out_idx,
                   reply, sink, output_result, refWallets, dispatchedPos,
                   appliedPos, againVars, faultVars, ask_result, walletVars>>

\* process: the next row does not deserialize; it is logged and skipped.
ReadParseError ==
    /\ pc = "read"
    /\ nread < MaxInput
    /\ nread' = nread + 1
    /\ UNCHANGED <<actor_count, buf_size, mailbox, cur, alive, wallets, pc,
                   pending, out_idx, reply, sink, process_result, output_result,
                   refWallets, dispatchedPos, appliedPos, lastRead,
                   againVars, faultVars, ask_result, walletVars>>

\* process: the input is at its end.
ReadEnd ==
    /\ pc = "read"
    /\ process_result' = "Ok"
    /\ pc' = "output"
    /\ UNCHANGED <<actor_count, buf_size, mailbox, cur, alive, wallets, nread,
                   pending, out_idx, reply, sink, output_result, refWallets,
                   dispatchedPos, appliedPos, lastRead,
                   againVars, faultVars, ask_result, walletVars>>

\* process: tell(Tx(tx)) to the actor of the client.  It fails when the
\* actor's loop has ended, and waits while the mailbox is full.
TellTx ==
    /\ pc = "tell"
    /\ LET i == shard_of(pending.tx, actor_count) IN
       IF ~alive[i]
       THEN /\ process_result' = "FatalError"
            /\ pc' = "output"
            /\ failed' = failed \cup {"tell"}
            /\ UNCHANGED <<mailbox, refWallets, dispatchedPos>>
       ELSE /\ has_permit(mailbox[i], buf_size)
            /\ mailbox' = [mailbox EXCEPT ![i] = send(@, pending)]
            /\ pc' = "read"
            /\ refWallets' = handle_tx(refWallets, pending.tx).ws
            /\ dispatchedPos' =
                  [dispatchedPos EXCEPT ![pending.tx.client] = Append(@, pending.pos)]
            /\ process_result' = process_result
            /\ failed' = failed
    /\ pending' = NoMsg
    /\ lastRead' = NoTx
    /\ UNCHANGED <<actor_count, buf_size, cur, alive, wallets, nread, out_idx,
                   reply, sink, output_result, appliedPos, againVars, fatal,
                   ask_result, walletVars>>

\* output: ask(Output) to the next actor, first half: the tell.  A failed
\* ask is skipped by the `if let Ok`.
AskSend ==
    /\ pc = "output"
    /\ out_idx < actor_count
    /\ IF ~alive[out_idx]
       THEN /\ out_idx' = out_idx + 1
            /\ failed' = failed \cup {"ask"}
            /\ ask_result' = map_channel_send_err
            /\ UNCHANGED <<mailbox, pc>>
       ELSE /\ has_permit(mailbox[out_idx], buf_size)
            /\ mailbox' = [mailbox EXCEPT ![out_idx] = send(@, OutputMsg)]
            /\ pc' = "ask_wait"
            /\ out_idx' = out_idx
            /\ failed' = failed
            /\ ask_result' = ask_result
    /\ lastRead' = NoTx
    /\ UNCHANGED <<actor_count, buf_size, cur, alive, wallets, nread, pending,
                   reply, sink, process_result, output_result, refWallets,
                   dispatchedPos, appliedPos, againVars, fatal, walletVars>>

\* output: the reply of the ask arrives and every wallet of it is
\* serialized as a row.
AskRecv ==
    /\ pc = "ask_wait"
    /\ reply # << >>
    /\ sink' = sink \o [k \in 1..Len(reply[1]) |-> WalletCsvView(reply[1][k])]
    /\ reply' = << >>
    /\ out_idx' = out_idx + 1
    /\ pc' = "output"
    /\ ask_result' = "Ok"
    /\ UNCHANGED <<actor_count, buf_size, mailbox, cur, alive, wallets, nread,
                   pending, process_result, output_result, refWallets,
                   dispatchedPos, appliedPos, lastRead,
                   againVars, faultVars, walletVars>>

\* output: every actor was asked; the writer is flushed.
OutputReturn ==
    /\ pc = "output"
    /\ out_idx = actor_count
    /\ output_result' = "Ok"
    /\ output_calls' = output_calls + 1
    /\ pc' = "done"
    /\ UNCHANGED <<actor_count, buf_size, mailbox, cur, alive, wallets, nread,
                   pending, out_idx, reply, sink, process_result, refWallets,
                   dispatchedPos, appliedPos, lastRead, sink_mark, faultVars,
                   ask_result, walletVars>>

\* output is called once more, with no call of process in between.
OutputAgain ==
    /\ pc = "done"
    /\ output_calls < MaxOutputCalls
    /\ pc' = "output"
    /\ out_idx' = 0
    /\ sink_mark' = Len(sink)
    /\ UNCHANGED <<actor_count, buf_size, mailbox, cur, alive, wallets, nread,
                   pending, reply, sink, process_result, output_result,
                   refWallets, dispatchedPos, appliedPos, lastRead,
                   output_calls, faultVars, ask_result, walletVars>>

\* output: the ask in progress fails with a RecvError, because the actor's
\* loop ended and dropped the reply sender; the `if let Ok` skips the actor.
AskFail ==
    /\ pc = "ask_wait"
    /\ ~alive[out_idx]
    /\ reply = << >>
    /\ out_idx' = out_idx + 1
    /\ pc' = "output"
    /\ failed' = failed \cup {"ask"}
    /\ ask_result' = map_channel_recv_err
    /\ UNCHANGED <<actor_count, buf_size, mailbox, cur, alive, wallets, nread,
                   pending, reply, sink, process_result, output_result,
                   refWallets, dispatchedPos, appliedPos, lastRead, againVars,
                   fatal, walletVars>>

\* The loop of actor i: rx.recv() returns the oldest message.
Recv(i) ==
    /\ alive[i]
    /\ cur[i] = NoMsg
    /\ mailbox[i] # << >>
    /\ cur' = [cur EXCEPT ![i] = recv(mailbox[i]).msg]
    /\ mailbox' = [mailbox EXCEPT ![i] = recv(mailbox[i]).rest]
    /\ UNCHANGED <<actor_count, buf_size, alive, wallets, pc, nread, pending,
                   out_idx, reply, sink, process_result, output_result,
                   refWallets, dispatchedPos, appliedPos, lastRead,
                   againVars, faultVars, ask_result, walletVars>>

\* The loop of actor i: handle(Tx(tx)); only a FatalError ends the loop.
HandleTx(i) ==
    /\ alive[i]
    /\ cur[i].kind = "Tx"
    /\ LET r == handle_tx(wallets[i], cur[i].tx) IN
       /\ wallets' = [wallets EXCEPT ![i] = r.ws]
       /\ alive' = [alive EXCEPT ![i] = loop_continues(r.res)]
    /\ appliedPos' = [appliedPos EXCEPT ![cur[i].tx.client] = Append(@, cur[i].pos)]
    /\ cur' = [cur EXCEPT ![i] = NoMsg]
    /\ UNCHANGED <<actor_count, buf_size, mailbox, pc, nread, pending, out_idx,
                   reply, sink, process_result, output_result, refWallets,
                   dispatchedPos, lastRead, againVars, faultVars, ask_result, walletVars>>

\* The loop of actor i: the handler of the message in hand ends with
\* Err(FatalError).  When the loop ends, the receiver is dropped with the
\* messages still waiting and with the message in hand.
HandleFatal(i) ==
    /\ alive[i]
    /\ cur[i] # NoMsg
    /\ fatal' = [fatal EXCEPT ![i] = TRUE]
    /\ alive' = [alive EXCEPT ![i] = loop_continues("FatalError")]
    /\ mailbox' = [mailbox EXCEPT ![i] = IF loop_continues("FatalError") THEN @ ELSE << >>]
    /\ cur' = [cur EXCEPT ![i] = NoMsg]
    /\ UNCHANGED <<actor_count, buf_size, wallets, pc, nread, pending, out_idx,
                   reply, sink, process_result, output_result, refWallets,
                   dispatchedPos, appliedPos, lastRead, againVars, failed,
                   ask_result, walletVars>>

\* The loop of actor i: handle(Output(sender)): the map is taken, leaving an
\* empty one, and sent as a Vec in the map's iteration order.
HandleOutput(i) ==
    /\ alive[i]
    /\ cur[i].kind = "Output"
    /\ \E o \in Orders(DOMAIN wallets[i]) :
          reply' = << [k \in 1..Len(o) |-> WalletState(o[k], wallets[i][o[k]])] >>
    /\ wallets' = [wallets EXCEPT ![i] = mem_take(@)]
    /\ cur' = [cur EXCEPT ![i] = NoMsg]
    /\ UNCHANGED <<actor_count, buf_size, mailbox, alive, pc, nread, pending,
                   out_idx, sink, process_result, output_result, refWallets,
                   dispatchedPos, appliedPos, lastRead,
                   againVars, faultVars, ask_result, walletVars>>

Init == InitSystem(1..MaxShards, 1..MaxBuf) /\ InitWallet

InitOneWallet == InitSystem({1}, {1}) /\ InitWallet

SpecWallet == InitOneWallet /\ [][NextWallet]_vars

Next ==
    \/ \E tx \in InputRecords : ReadRecord(tx)
    \/ ReadParseError
    \/ ReadEnd
    \/ TellTx
    \/ AskSend
    \/ AskRecv
    \/ OutputReturn
    \/ \E i \in Shards : Recv(i)
    \/ \E i \in Shards : HandleTx(i)
    \/ \E i \in Shards : HandleOutput(i)

Spec == Init /\ [][Next]_vars

\* Whether a task waits depends on how many messages there are, not on
\* what they carry: the runs with fairness read records of one tx id.
FairRecords == {tx \in InputRecords : tx.id = 1 /\ tx.amount # <<0>>}

\* The steps of the task that runs process and output, and of the task of
\* actor i; the runtime schedules every task that can make a step.
RouterStep ==
    \/ \E tx \in FairRecords : ReadRecord(tx)
    \/ ReadParseError
    \/ ReadEnd
    \/ TellTx
    \/ AskSend
    \/ AskRecv
    \/ OutputReturn

ActorStep(i) == i \in Shards /\ (Recv(i) \/ HandleTx(i) \/ HandleOutput(i))

NextFair ==
    \/ \E tx \in FairRecords : ReadRecord(tx)
    \/ ReadParseError
    \/ ReadEnd
    \/ TellTx
    \/ AskSend
    \/ AskRecv
    \/ OutputReturn
    \/ \E i \in Shards : Recv(i)
    \/ \E i \in Shards : HandleTx(i)
    \/ \E i \in Shards : HandleOutput(i)

SpecFair ==
    /\ Init
    /\ [][NextFair]_vars
    /\ WF_vars(RouterStep)
    /\ \A i \in 0..(MaxShards - 1) : WF_vars(ActorStep(i))

\* A run in which output is called up to MaxOutputCalls times.
NextAgain == Next \/ OutputAgain

\* The capacity of the mailboxes plays no part in what a second call finds.
InitAgain == InitSystem(1..MaxShards, {MaxBuf}) /\ InitWallet

SpecAgain == InitAgain /\ [][NextAgain]_vars

\* A run in which a handler may end with FatalError.
NextFault ==
    \/ Next
    \/ \E i \in Shards : HandleFatal(i)
    \/ AskFail

\* Mailboxes of capacity one: a loop may end while a tell waits for room.
InitFault == InitSystem(1..MaxShards, {1}) /\ InitWallet

SpecFault == InitFault /\ [][NextFault]_vars

\* The asker is a task of the runtime: once the reply sender is dropped, its
\* wait on the reply ends.
SpecFaultFair == SpecFault /\ WF_vars(AskFail)

(* ------------------- claims on routing and order ---------------------- *)
IsPrefix(a, b) == Len(a) <= Len(b) /\ SubSeq(b, 1, Len(a)) = a

Increasing(q) == \A a, b \in 1..Len(q) : a < b => q[a] < q[b]

TxOfShard(i) ==
    {mailbox[i][k].tx : k \in {j \in 1..Len(mailbox[i]) : mailbox[i][j].kind = "Tx"}}
    \cup (IF cur[i].kind = "Tx" THEN {cur[i].tx} ELSE {})

\* C1: every record of client c travels through the mailbox of actor
\* c mod actor_count only and only that actor holds a wallet of c; the
\* records applied for a client are, in order, the first of the records
\* dispatched for it, which were dispatched in input order; when output has
\* returned, all of them are applied.
C1_RoutingAndOrder ==
    /\ \A i \in Shards :
          /\ \A tx \in TxOfShard(i) : tx.client % actor_count = i
          /\ \A c \in DOMAIN wallets[i] : c % actor_count = i
    /\ \A c \in Clients :
          /\ Increasing(dispatchedPos[c])
          /\ IsPrefix(appliedPos[c], dispatchedPos[c])
          /\ pc = "done" => appliedPos[c] = dispatchedPos[c]

C1_Witness ==
    /\ actor_count = 2
    /\ Len(appliedPos[0]) = 2
    /\ Len(appliedPos[1]) = 1
    /\ appliedPos[1][1] = 2
    /\ appliedPos[0] = <<1, 3>>

\* C2: when output has returned, the rows written are exactly the rows of
\* the wallets obtained by applying the dispatched records one after
\* another, in input order, to a single map of wallets.
ReferenceRows ==
    {WalletCsvView(WalletState(c, refWallets[c])) : c \in DOMAIN refWallets}

C2_SequentialEquivalence ==
    pc = "done" => {sink[k] : k \in 1..Len(sink)} = ReferenceRows

C2_Witness ==
    /\ pc = "done"
    /\ actor_count = 2
    /\ buf_size = 1
    /\ Len(sink) = 2
    /\ \E k \in 1..2 : sink[k].held > 0 /\ sink[k].total = 2
    /\ Len(dispatchedPos[0]) + Len(dispatchedPos[1]) = 3

(* ----------------------- claims on one wallet ------------------------- *)
LastIs(kinds) == last.tx.tx_type \in kinds
LastStored == last.tx.id \in DOMAIN last.pre.transactions
LastRecord == last.pre.transactions[last.tx.id]
BalancesKept == /\ wlt.available = last.pre.available
                /\ wlt.held = last.pre.held
HistoryKept == wlt.transactions = last.pre.transactions

\* C3: once the wallet is locked, every later Deposit or Withdrawal fails
\* with AccountLocked (a duplicate tx_id or an amount above available makes
\* no difference) and changes neither available, held nor the history.
C3_LockedRejects ==
    (last.wasLocked /\ LastIs({"Deposit", "Withdrawal"}))
        => (last.res = "AccountLocked" /\ BalancesKept /\ HistoryKept)

C3_Witness ==
    /\ last.wasLocked
    /\ LastIs({"Withdrawal"})
    /\ LastStored
    /\ unwrap(last.tx.amount) > last.pre.available
    /\ last.res = "AccountLocked"

\* C4: locked is monotonic: a call never turns it from true to false, and
\* it turns from false to true only in an accepted Chargeback.
C4_LockedMonotonic ==
    /\ last.pre.locked => wlt.locked
    /\ (~last.pre.locked /\ wlt.locked)
           => (LastIs({"Chargeback"}) /\ last.res = "Ok")

C4_Witness ==
    /\ last.pre.locked
    /\ LastIs({"Resolve"})
    /\ last.res = "Ok"
    /\ wlt.locked

\* C5: as long as only Deposits and Withdrawals were applied, available is
\* the sum of the accepted deposits minus the sum of the accepted
\* withdrawals, and held is 0.
C5_BalanceIsSum ==
    onlyDW => (wlt.available = sumDeposits - sumWithdrawals /\ wlt.held = 0)

C5_Witness ==
    /\ onlyDW
    /\ sumWithdrawals > 0
    /\ sumDeposits > sumWithdrawals
    /\ LastIs({"Withdrawal"})
    /\ last.res = "DuplicateTransaction"

\* C6: on an unlocked wallet a Withdrawal with a fresh tx_id fails with
\* InsufficientFunds exactly when available < amount and then changes
\* nothing; otherwise it is accepted, available decreases by the amount and
\* the record is stored.
C6_Withdrawal ==
    (LastIs({"Withdrawal"}) /\ ~last.pre.locked /\ ~LastStored)
        => LET amount == unwrap(last.tx.amount) IN
           /\ (last.res = "InsufficientFunds") <=> (last.pre.available < amount)
           /\ (last.res = "InsufficientFunds") => (BalancesKept /\ HistoryKept)
           /\ (last.res # "InsufficientFunds") =>
                 /\ last.res = "Ok"
                 /\ wlt.available = last.pre.available - amount
                 /\ wlt.held = last.pre.held
                 /\ wlt.transactions = Insert(last.pre.transactions, last.tx.id, last.tx)

C6_Witness ==
    /\ LastIs({"Withdrawal"})
    /\ ~last.pre.locked
    /\ ~LastStored
    /\ unwrap(last.tx.amount) = last.pre.available
    /\ last.pre.available > 0
    /\ last.res = "Ok"

\* C7 as stated: a Deposit or Withdrawal whose tx_id is already in the
\* history fails with DuplicateTransaction and changes nothing.
C7_DuplicateAlwaysDuplicateError ==
    (LastIs({"Deposit", "Withdrawal"}) /\ LastStored)
        => (last.res = "DuplicateTransaction" /\ BalancesKept /\ HistoryKept)

\* C7 as amended: a Deposit or Withdrawal whose tx_id is already in the
\* history fails, with DuplicateTransaction on an unlocked wallet and with
\* AccountLocked on a locked one, and changes neither available, held nor
\* the stored record; no call ever replaces the kind or amount stored under
\* a tx_id.
C7_DuplicateRejected ==
    /\ (LastIs({"Deposit", "Withdrawal"}) /\ LastStored)
          => /\ last.res = (IF last.pre.locked THEN "AccountLocked"
                                               ELSE "DuplicateTransaction")
             /\ BalancesKept
             /\ HistoryKept
    /\ \A i \in DOMAIN last.pre.transactions :
          /\ i \in DOMAIN wlt.transactions
          /\ wlt.transactions[i].tx_type = last.pre.transactions[i].tx_type
          /\ wlt.transactions[i].amount = last.pre.transactions[i].amount

C7_Witness ==
    /\ LastIs({"Deposit"})
    /\ LastStored
    /\ ~last.pre.locked
    /\ last.tx.amount # LastRecord.amount
    /\ last.res = "DuplicateTransaction"

\* C8: an accepted Dispute naming a stored Deposit of amount A decreases
\* available by A and increases held by A (available + held is unchanged,
\* available may go below zero); a Dispute naming a tx_id that is not in
\* the history fails with TransactionNotFound.
C8_Dispute ==
    LastIs({"Dispute"}) =>
        /\ (LastStored /\ LastRecord.tx_type = "Deposit" /\ last.res = "Ok")
              => LET A == unwrap(LastRecord.amount) IN
                 /\ wlt.available = last.pre.available - A
                 /\ wlt.held = last.pre.held + A
                 /\ wlt.available + wlt.held = last.pre.available + last.pre.held
        /\ ~LastStored => last.res = "TransactionNotFound"

C8_Witness ==
    /\ LastIs({"Dispute"})
    /\ LastStored
    /\ LastRecord.tx_type = "Deposit"
    /\ last.res = "Ok"
    /\ wlt.available < 0
    /\ wlt.held > 0

\* C9: a Dispute immediately followed by a Resolve of the same tx_id, on a
\* stored Deposit or Withdrawal: the Resolve is accepted, available, held
\* and locked are what they were before the Dispute, and the record is
\* not disputed.
DisputeThenResolve ==
    /\ prev.tx.tx_type = "Dispute"
    /\ prev.res = "Ok"
    /\ LastIs({"Resolve"})
    /\ last.tx.id = prev.tx.id

C9_RoundTrip ==
    DisputeThenResolve =>
        /\ last.res = "Ok"
        /\ wlt.available = prev.pre.available
        /\ wlt.held = prev.pre.held
        /\ wlt.locked = prev.pre.locked
        /\ ~wlt.transactions[last.tx.id].disputed

C9_Witness ==
    /\ DisputeThenResolve
    /\ prev.pre.transactions[prev.tx.id].tx_type = "Withdrawal"
    /\ unwrap(prev.pre.transactions[prev.tx.id].amount) > 0
    /\ last.res = "Ok"

\* C10: a Chargeback on a disputed record of amount A is accepted, sets
\* locked, clears the disputed flag and decreases held by A; available is
\* unchanged for a Deposit and increases by A for a Withdrawal.
C10_Chargeback ==
    (LastIs({"Chargeback"}) /\ LastStored /\ LastRecord.disputed)
        => LET A == unwrap(LastRecord.amount) IN
           /\ last.res = "Ok"
           /\ wlt.locked
           /\ ~wlt.transactions[last.tx.id].disputed
           /\ wlt.held = last.pre.held - A
           /\ wlt.available = last.pre.available
                                + (IF LastRecord.tx_type = "Withdrawal" THEN A ELSE 0)

C10_Witness ==
    /\ LastIs({"Chargeback"})
    /\ LastStored
    /\ LastRecord.disputed
    /\ LastRecord.tx_type = "Withdrawal"
    /\ unwrap(LastRecord.amount) > 0
    /\ wlt.locked
    /\ wlt.available = last.pre.available + unwrap(LastRecord.amount)

\* C11: the AccountLocked guard does not cover Dispute, Resolve and
\* Chargeback: on a locked wallet each of them has the result, the balances
\* and the history it has on the same wallet with locked = false.
C11_DisputesOnLockedWallet ==
    (last.pre.locked /\ LastIs({"Dispute", "Resolve", "Chargeback"}))
        => LET u == process_transaction([last.pre EXCEPT !.locked = FALSE], last.tx) IN
           /\ last.res = u.res
           /\ last.res # "AccountLocked"
           /\ wlt.available = u.w.available
           /\ wlt.held = u.w.held
           /\ wlt.transactions = u.w.transactions

C11_Witness ==
    /\ last.pre.locked
    /\ LastIs({"Chargeback"})
    /\ last.res = "Ok"
    /\ wlt.held # last.pre.held

\* C12: a Resolve or Chargeback naming a stored record that is not disputed
\* fails with InvalidDisputeState and leaves available, held, the history
\* (the record's flag included) and locked as they were.
C12_NotDisputedRejected ==
    (LastIs({"Resolve", "Chargeback"}) /\ LastStored /\ ~LastRecord.disputed)
        => /\ last.res = "InvalidDisputeState"
           /\ BalancesKept
           /\ HistoryKept
           /\ wlt.locked = last.pre.locked

C12_Witness ==
    /\ LastIs({"Chargeback"})
    /\ LastStored
    /\ ~LastRecord.disputed
    /\ unwrap(LastRecord.amount) > 0
    /\ last.res = "InvalidDisputeState"
    /\ ~wlt.locked

(* --------------- claims on the run, mailboxes and output -------------- *)
\* C15: whenever process returned an error (InvalidAmount, or FatalError
\* for an actor channel failure), no row is written to the sink.
C15_NoRowAfterProcessError ==
    process_result \in {"InvalidAmount", "FatalError"} => sink = << >>

TargetShard == shard_of(pending.tx, actor_count)

\* C17: a mailbox never holds more than buf_size messages; a tell whose
\* target mailbox is full neither fails nor loses its message: it stays
\* pending while only the owner may take a message out, and when it
\* completes the message is the new tail of the mailbox.
C17_TellStep ==
    (pc = "tell" /\ alive[TargetShard]) =>
        IF Len(mailbox[TargetShard]) = buf_size
        THEN /\ pending' = pending
             /\ pc' = "tell"
             /\ process_result' = process_result
             /\ \/ mailbox'[TargetShard] = mailbox[TargetShard]
                \/ /\ mailbox'[TargetShard] = Tail(mailbox[TargetShard])
                   /\ cur'[TargetShard] = Head(mailbox[TargetShard])
        ELSE pending' # pending =>
                /\ mailbox'[TargetShard] = Append(mailbox[TargetShard], pending)
                /\ process_result' = process_result

C17_BoundedMailbox ==
    /\ [](\A i \in Shards : Len(mailbox[i]) <= buf_size)
    /\ [][C17_TellStep]_vars

C17_Witness ==
    /\ pc = "tell"
    /\ Len(mailbox[TargetShard]) = buf_size
    /\ cur[TargetShard].kind = "Tx"
    /\ process_result = "None"

\* C19: when output has returned, no client id stands in two rows and no
\* client has a wallet in two actors; a client has a row exactly when an
\* actor handled at least one of its records, accepted or not.
RowClients == {sink[k].client_id : k \in 1..Len(sink)}

C19_OneRowPerClient ==
    /\ \A i, j \in Shards : i # j => DOMAIN wallets[i] \cap DOMAIN wallets[j] = {}
    /\ pc = "done" =>
          /\ \A a, b \in 1..Len(sink) : a # b => sink[a].client_id # sink[b].client_id
          /\ RowClients = {c \in Clients : appliedPos[c] # << >>}

C19_Witness ==
    /\ pc = "done"
    /\ Len(sink) = 2
    /\ \E c \in DOMAIN refWallets : refWallets[c].transactions = << >>
    /\ \E c \in Clients : Len(appliedPos[c]) = 2

\* C20: an actor takes a message only when it is handling none, the message
\* taken is the oldest of its mailbox, and the message being handled changes
\* only by the end of its handling.
C20_ActorStep ==
    \A i \in Shards :
        cur'[i] # cur[i] =>
            \/ /\ cur[i] = NoMsg
               /\ mailbox[i] # << >>
               /\ cur'[i] = Head(mailbox[i])
               /\ mailbox'[i] = Tail(mailbox[i])
            \/ /\ cur[i] # NoMsg
               /\ cur'[i] = NoMsg
               /\ IsPrefix(mailbox[i], mailbox'[i])

C20_OneAtATime == [][C20_ActorStep]_vars

C20_Witness ==
    \E i \in Shards :
        /\ cur[i].kind = "Tx"
        /\ cur[i].pos = 1
        /\ Len(mailbox[i]) = 2
        /\ mailbox[i][1].pos = 2
        /\ mailbox[i][2].pos = 3

\* C14: a Deposit or Withdrawal whose amount is absent or negative makes
\* process return InvalidAmount at once: neither that record nor a later one
\* is dispatched, the records dispatched before it stay dispatched and are
\* all applied by the time output returns; every other record read, one
\* with amount zero included, goes on to the tell.
AmountAbsentOrNegative(tx) ==
    /\ tx.tx_type \in {"Deposit", "Withdrawal"}
    /\ (tx.amount = << >> \/ unwrap(tx.amount) < 0)

DispatchedPositions ==
    UNION {{dispatchedPos[c][k] : k \in 1..Len(dispatchedPos[c])} : c \in Clients}

C14_AfterRead ==
    lastRead # NoTx =>
        IF AmountAbsentOrNegative(lastRead)
        THEN /\ process_result = "InvalidAmount"
             /\ pc = "output"
             /\ pending = NoMsg
        ELSE /\ process_result = "None"
             /\ pc = "tell"
             /\ pending = TxMsg(lastRead, nread)

C14_Stopped ==
    process_result = "InvalidAmount" =>
        /\ pc \notin {"read", "tell"}
        /\ pending = NoMsg
        /\ \A p \in DispatchedPositions : p < nread
        /\ pc = "done" => appliedPos = dispatchedPos

C14_StaysStopped ==
    process_result = "InvalidAmount" =>
        /\ process_result' = process_result
        /\ nread' = nread
        /\ dispatchedPos' = dispatchedPos
        /\ \A c \in Clients : IsPrefix(appliedPos[c], appliedPos'[c])

C14_InvalidAmountStops ==
    /\ [](C14_AfterRead /\ C14_Stopped)
    /\ [][C14_StaysStopped]_vars

C14_Witness ==
    /\ process_result = "InvalidAmount"
    /\ pc = "done"
    /\ nread = 3
    /\ Cardinality(DispatchedPositions) = 2
    /\ \E c \in DOMAIN refWallets :
          \E i \in DOMAIN refWallets[c].transactions :
             refWallets[c].transactions[i].amount = <<0>>

\* C18: the Output ask moves every wallet out of its actor: from the start
\* of a second call of output on, no actor holds a wallet, a reply carries
\* no wallet and no row is added to the sink, so that no client is in two
\* rows.
SecondCall ==
    \/ output_calls >= 2
    \/ output_calls = 1 /\ pc \in {"output", "ask_wait"}

C18_OneShotDrain ==
    /\ SecondCall =>
          /\ Len(sink) = sink_mark
          /\ \A i \in Shards : wallets[i] = << >>
          /\ reply \in {<< >>, << << >> >>}
    /\ \A a, b \in 1..Len(sink) : a # b => sink[a].client_id # sink[b].client_id

C18_Witness ==
    /\ output_calls = 2
    /\ pc = "done"
    /\ actor_count = 2
    /\ Len(sink) = 2
    /\ sink_mark = 2

(* ------------------- claims on failures of an actor -------------------- *)
NonFatalErrors ==
    {"AccountLocked", "InsufficientFunds", "TransactionNotFound",
     "DuplicateTransaction", "InvalidDisputeState"}

ClientsOf(i) == {c \in Clients : c % actor_count = i}

\* C13: a handler ending with FatalError ends the loop of its actor, and an
\* actor whose loop has ended handles nothing any more: its wallets, its
\* applied records and its empty mailbox stay as they are.  A handler
\* ending with any other error leaves the actor alive with the wallet as
\* process_transaction left it, and the actor goes on taking messages;
\* process returns FatalError only after a loop has ended.
C13_LoopStep ==
    \A i \in Shards :
        /\ (fatal'[i] /\ ~fatal[i]) => ~alive'[i]
        /\ ~alive[i] =>
              /\ ~alive'[i]
              /\ wallets'[i] = wallets[i]
              /\ cur'[i] = NoMsg
              /\ mailbox'[i] = << >>
              /\ \A c \in ClientsOf(i) : appliedPos'[c] = appliedPos[c]
        /\ (alive[i] /\ cur[i].kind = "Tx" /\ cur'[i] = NoMsg /\ ~fatal'[i]) =>
              LET r == handle_tx(wallets[i], cur[i].tx) IN
              /\ wallets'[i] = r.ws
              /\ r.res \in NonFatalErrors \cup {"Ok"}
              /\ alive'[i]

C13_FatalStopsOthersContained ==
    /\ [](process_result = "FatalError" => \E i \in Shards : fatal[i])
    /\ [](\A i \in Shards : alive[i] <=> ~fatal[i])
    /\ [][C13_LoopStep]_vars

C13_Witness ==
    \E i, j \in Shards :
        /\ fatal[j]
        /\ ~alive[j]
        /\ alive[i]
        /\ cur[i].kind = "Tx"
        /\ cur[i].pos = 2
        /\ appliedPos[cur[i].tx.client] = <<1>>
        /\ wallets[i][cur[i].tx.client].transactions = << >>

\* C16: a tell that failed during process makes process return an error,
\* and an ask that failed during output makes output return an error.
C16_ChannelFailureAborts ==
    /\ "tell" \in failed => process_result = "FatalError"
    /\ ("ask" \in failed /\ pc = "done") => output_result # "Ok"

(* --------------------- claims on the wallet's ledger ------------------- *)
RECURSIVE SumAmounts(_, _)
SumAmounts(w, ids) ==
    IF ids = {} THEN 0
    ELSE LET i == CHOOSE x \in ids : TRUE IN
         unwrap(w.transactions[i].amount) + SumAmounts(w, ids \ {i})

DisputedIds(w) == {i \in DOMAIN w.transactions : w.transactions[i].disputed}

\* C23: held is the sum of the amounts of the stored records whose
\* disputed flag is set (so 0 when none is set), and is never negative.
C23_HeldIsSumOfDisputed ==
    /\ wlt.held = SumAmounts(wlt, DisputedIds(wlt))
    /\ wlt.held >= 0

\* C24: once a Chargeback was accepted for a tx id, no later Dispute,
\* Resolve or Chargeback naming that tx id changes available or held.
C24_CallStep ==
    (/\ last' # last
     /\ last'.tx.id \in chargedBack
     /\ last'.tx.tx_type \in {"Dispute", "Resolve", "Chargeback"})
        => (wlt'.available = wlt.available /\ wlt'.held = wlt.held)

C24_ChargedBackOnce == [][C24_CallStep]_vars

\* C25: a record that process_transaction refuses leaves the wallet as it
\* was (available, held, locked, the stored tx ids and their disputed
\* flags), and WalletActor::handle leaves every other client's wallet as it
\* was too.
OtherWallet == [WalletDefault EXCEPT !.available = MaxAmount, !.held = MaxAmount]

C25_RefusedChangesNothing ==
    last.res \notin {"Ok", "None"} =>
        /\ last.res \in {"AccountLocked", "DuplicateTransaction", "InsufficientFunds",
                         "TransactionNotFound", "InvalidDisputeState"}
        /\ wlt = last.pre
        /\ LET ws == [c \in Clients |-> IF c = last.tx.client THEN last.pre ELSE OtherWallet]
               r == handle_tx(ws, last.tx)
           IN  r.res = last.res /\ r.ws = ws

C25_Witness ==
    /\ last.res = "InsufficientFunds"
    /\ last.pre.held > 0
    /\ DisputedIds(last.pre) # {}
    /\ last.tx.id \notin DOMAIN last.pre.transactions

(* ------------------------ claims on the snapshot ----------------------- *)
\* C22: when an actor has the Output message in hand, every record
\* dispatched to it is applied; the reply it sends holds, for each of its
\* clients, the wallet that results from all the dispatched records.
C22_SnapshotIsFinal ==
    /\ \A i \in Shards :
          cur[i].kind = "Output" =>
             /\ mailbox[i] = << >>
             /\ \A c \in ClientsOf(i) : appliedPos[c] = dispatchedPos[c]
    /\ reply # << >> =>
          {reply[1][k] : k \in 1..Len(reply[1])} =
             {WalletState(c, refWallets[c]) : c \in DOMAIN refWallets \cap ClientsOf(out_idx)}

C22_Witness ==
    /\ reply # << >>
    /\ Len(reply[1]) = 1
    /\ buf_size = 1
    /\ Len(dispatchedPos[reply[1][1].client_id]) = 3
    /\ reply[1][1].wallet.held > 0

(* ---------------------- claims on asks and liveness -------------------- *)
\* C21: an ask to an actor whose loop has ended returns an error: the send
\* error when the loop had ended before the message was sent, the receive
\* error when the message was sent and the loop ended without an answer;
\* a caller waiting for the reply of an ended loop does not wait forever.
C21_AskStep ==
    /\ (pc = "output" /\ out_idx < actor_count /\ ~alive[out_idx] /\ out_idx' # out_idx)
          => (ask_result' = "ActorTxSendError" /\ pc' = "output" /\ sink' = sink)
    /\ (pc = "ask_wait" /\ pc' # pc) =>
          IF reply = << >>
          THEN ~alive[out_idx] /\ ask_result' = "ActorRecvError" /\ sink' = sink
          ELSE ask_result' = "Ok"

WaitingOnEndedLoop == pc = "ask_wait" /\ ~alive[out_idx] /\ reply = << >>

C21_AskOfEndedLoopFails ==
    /\ [][C21_AskStep]_vars
    /\ WaitingOnEndedLoop ~> (pc # "ask_wait")

C21_Witness ==
    /\ ask_result = "ActorRecvError"
    /\ pc = "output"
    /\ out_idx = 1
    /\ actor_count = 2
    /\ alive[1]
    /\ "tell" \notin failed

\* C26: with every task scheduled as long as it can make a step, process
\* returns, and output returns Ok after every actor was asked and has
\* answered; a full mailbox makes the caller wait, not wait forever.
C26_Terminates ==
    /\ <>(process_result # "None")
    /\ <>[](/\ pc = "done"
            /\ output_result = "Ok"
            /\ out_idx = actor_count
            /\ \A i \in Shards : cur[i] = NoMsg /\ mailbox[i] = << >>)

C26_Witness ==
    /\ pc = "done"
    /\ output_result = "Ok"
    /\ buf_size = 1
    /\ actor_count = 2
    /\ \E c \in Clients : Len(appliedPos[c]) = MaxInput

====
